---- MODULE Spec2Model ----
(***************************************************************************)
(* Keyboard navigation of the file selection                               *)
(* (app/src/lib/utils/selection.ts).                                       *)
(*                                                                         *)
(* A file is modelled by its id (a positive integer); `files` is the       *)
(* ordered list shown in the view.  The selection manager (FileIdSelection)*)
(* holds an ordered sequence of stringified file keys.  One key press is   *)
(* one atomic step: maybeMoveSelection runs to completion on the UI thread.*)
(* Every step records the arguments of the call (ev, selectedFileIds) and  *)
(* the calls it made on the selection manager (calls), so that properties  *)
(* of one handler run are state predicates over the state it leaves.       *)
(***************************************************************************)
EXTENDS Integers, Sequences, FiniteSets

\* Longest file list of the model.
MaxFiles == 4

\* Longest selection the view starts with.
MaxSel == 3

\* File ids; id MaxFiles + 1 is in no file list.
Ids == 1..(MaxFiles + 1)

\* The result of a lookup that found no file.
undefined == 0

Keys == {"ArrowUp", "ArrowDown", "Enter"}

VARIABLES
    files,               \* the ordered file list of the view
    fileIdSelection,     \* the selection manager's value: a sequence of file keys
    focused,             \* the list element that has UI focus (a position of files)
    selectedFileIds,     \* the selectedFileIds argument of the last call
    ev,                  \* the other arguments of the last call
    calls,               \* the calls the last call made on the manager, in order
    selectionDirection   \* the final value of the last call's selectionDirection

vars == <<files, fileIdSelection, focused, selectedFileIds, ev, calls, selectionDirection>>

(***************************************************************************)
(* File keys and the selection manager                                     *)
(***************************************************************************)

stringifyFileKey(fileId) == [fileKey |-> fileId]

unstringifyFileKey(fileKeyString) == fileKeyString.fileKey

add(value, fileId) == Append(value, stringifyFileKey(fileId))

remove(value, fileId) == SelectSeq(value, LAMBDA k : k # stringifyFileKey(fileId))

clear(value) == << >>

addCall(fileId) == [op |-> "add", fileId |-> fileId]

removeCall(fileId) == [op |-> "remove", fileId |-> fileId]

clearCall == [op |-> "clear", fileId |-> undefined]

applyCall(value, c) ==
    IF c.op = "add" THEN add(value, c.fileId)
    ELSE IF c.op = "remove" THEN remove(value, c.fileId)
    ELSE clear(value)

RECURSIVE applyCalls(_, _)
applyCalls(value, cs) ==
    IF cs = << >> THEN value
    ELSE applyCalls(applyCall(value, Head(cs)), Tail(cs))

getSelectionDirection(lastIndex, firstIndex) ==
    IF lastIndex > firstIndex THEN "down"
    ELSE IF lastIndex < firstIndex THEN "up"
    ELSE "none"

(***************************************************************************)
(* selection.ts                                                            *)
(***************************************************************************)

\* Array.prototype.findIndex on f.id === id: zero-based, -1 when absent.
findIndex(fs, id) ==
    IF \E i \in 1..Len(fs) : fs[i] = id
    THEN (CHOOSE i \in 1..Len(fs) : fs[i] = id /\ \A j \in 1..(i - 1) : fs[j] # id) - 1
    ELSE -1

\* ids.includes(key)
includes(ids, key) == \E i \in 1..Len(ids) : ids[i] = key

getNextFile(fs, currentId) ==
    LET fileIndex == findIndex(fs, currentId)
    IN  IF fileIndex # -1 /\ fileIndex + 1 < Len(fs) THEN fs[fileIndex + 2] ELSE undefined

\* Mutant: the index is not decremented, so the current file is returned.
getPreviousFileSameIndex(fs, currentId) ==
    LET fileIndex == findIndex(fs, currentId)
    IN  IF fileIndex > 0 THEN fs[fileIndex + 1] ELSE undefined

getPreviousFile(fs, currentId) ==
    LET fileIndex == findIndex(fs, currentId)
    IN  IF fileIndex > 0 THEN fs[fileIndex] ELSE undefined

\* The lookup each key passes as getFileFunc.
getFileFunc(key, fs, id) ==
    IF key = "ArrowUp" THEN getPreviousFile(fs, id) ELSE getNextFile(fs, id)

firstFileId(ids) == unstringifyFileKey(ids[1])

lastFileId(ids) == unstringifyFileKey(ids[Len(ids)])

initialDirection(fs, ids) ==
    getSelectionDirection(findIndex(fs, lastFileId(ids)), findIndex(fs, firstFileId(ids)))

\* Mutant: the already-selected check is missing.
getAndAddFileUnchecked(key, id, fs, ids) ==
    LET file == getFileFunc(key, fs, id)
    IN  IF file # undefined THEN <<addCall(file)>> ELSE << >>

getAndAddFile(key, id, fs, ids) ==
    LET file == getFileFunc(key, fs, id)
    IN  IF file # undefined
        THEN IF includes(ids, stringifyFileKey(file)) THEN << >> ELSE <<addCall(file)>>
        ELSE << >>

\* Mutant: clear() is called before the file is known to exist.
getAndClearAndAddFileClearFirst(key, id, fs) ==
    LET file == getFileFunc(key, fs, id)
    IN  <<clearCall>> \o (IF file # undefined THEN <<addCall(file)>> ELSE << >>)

getAndClearAndAddFile(key, id, fs) ==
    LET file == getFileFunc(key, fs, id)
    IN  IF file # undefined THEN <<clearCall, addCall(file)>> ELSE << >>

\* The direction a key extends in, and the one it shrinks.
keyDirection(key) == IF key = "ArrowUp" THEN "up" ELSE "down"

oppositeDirection(key) == IF key = "ArrowUp" THEN "down" ELSE "up"

\* Mutant: the removal is made when the direction matches the key.
removeOnReverseSameDirection(key, fs, ids) ==
    IF Len(ids) = 1 THEN << >>
    ELSE IF initialDirection(fs, ids) = keyDirection(key)
         THEN <<removeCall(lastFileId(ids))>>
         ELSE << >>

\* Mutant: the first-selected identifier is removed instead of the last.
removeOnReverseFirst(key, fs, ids) ==
    IF Len(ids) = 1 THEN << >>
    ELSE IF initialDirection(fs, ids) = oppositeDirection(key)
         THEN <<removeCall(firstFileId(ids))>>
         ELSE << >>

\* if (length === 1) direction = key's  else if (direction === opposite) remove(lastFileId)
removeOnReverse(key, fs, ids) ==
    IF Len(ids) = 1 THEN << >>
    ELSE IF initialDirection(fs, ids) = oppositeDirection(key)
         THEN <<removeCall(lastFileId(ids))>>
         ELSE << >>

\* Mutant: after a removal the neighbour is looked up from, and checked
\* against, the selection as the removal left it.
extendSelectionFromNewLast(key, fs, ids) ==
    LET removed == removeOnReverse(key, fs, ids)
        left == applyCalls(ids, removed)
    IN  removed \o getAndAddFile(key, lastFileId(left), fs, left)

extendSelection(key, fs, ids) ==
    removeOnReverse(key, fs, ids) \o getAndAddFile(key, lastFileId(ids), fs, ids)

\* Mutant: the reset always starts from the focused file.
resetSelectionFromFocused(key, file, fs, ids) ==
    getAndClearAndAddFile(key, file, fs)

resetSelection(key, file, fs, ids) ==
    IF Len(ids) > 1
    THEN getAndClearAndAddFile(key, lastFileId(ids), fs)
    ELSE getAndClearAndAddFile(key, file, fs)

\* The calls one run of maybeMoveSelection makes on fileIdSelection, in order.
managerCalls(allowMultiple, shiftKey, key, file, fs, ids) ==
    IF Len(ids) = 0 THEN << >>
    ELSE IF key \in {"ArrowUp", "ArrowDown"}
         THEN IF shiftKey /\ allowMultiple
              THEN extendSelection(key, fs, ids)
              ELSE resetSelection(key, file, fs, ids)
         ELSE << >>

\* Mutant: the two siblings are swapped.
focusSiblingSwapped(key, target, n) ==
    IF key = "ArrowUp"
    THEN IF target < n THEN target + 1 ELSE target
    ELSE IF target > 1 THEN target - 1 ELSE target

\* targetElement.previousElementSibling / nextElementSibling, focus() if there is one.
focusSibling(key, target, n) ==
    IF key = "ArrowUp"
    THEN IF target > 1 THEN target - 1 ELSE target
    ELSE IF target < n THEN target + 1 ELSE target

\* Mutant: focus is moved before the empty selection is checked.
focusAfterBeforeEmptyCheck(allowMultiple, shiftKey, key, target, n, ids) ==
    IF key \in {"ArrowUp", "ArrowDown"} /\ ~(shiftKey /\ allowMultiple)
    THEN focusSibling(key, target, n)
    ELSE target

focusAfter(allowMultiple, shiftKey, key, target, n, ids) ==
    IF Len(ids) = 0 THEN target
    ELSE IF key \in {"ArrowUp", "ArrowDown"} /\ ~(shiftKey /\ allowMultiple)
         THEN focusSibling(key, target, n)
         ELSE target

directionAfter(allowMultiple, shiftKey, key, fs, ids, old) ==
    IF Len(ids) = 0 THEN old
    ELSE IF key \in {"ArrowUp", "ArrowDown"} /\ shiftKey /\ allowMultiple /\ Len(ids) = 1
         THEN keyDirection(key)
         ELSE initialDirection(fs, ids)

maybeMoveSelection(allowMultiple, shiftKey, key) ==
    LET target == focused
        file == files[target]
        ids == fileIdSelection
        cs == managerCalls(allowMultiple, shiftKey, key, file, files, ids)
    IN  /\ selectedFileIds' = ids
        /\ ev' = [key |-> key, shiftKey |-> shiftKey,
                  allowMultiple |-> allowMultiple, target |-> target]
        /\ calls' = cs
        /\ fileIdSelection' = applyCalls(fileIdSelection, cs)
        /\ focused' = focusAfter(allowMultiple, shiftKey, key, target, Len(files), ids)
        /\ selectionDirection' =
               directionAfter(allowMultiple, shiftKey, key, files, ids, selectionDirection)
        /\ UNCHANGED files

(***************************************************************************)
(* Initial states and specifications                                       *)
(***************************************************************************)

Ascending(n) == [i \in 1..n |-> i]

Descending(n) == [i \in 1..n |-> n + 1 - i]

FileLists == {Ascending(n) : n \in 1..MaxFiles} \cup {Descending(n) : n \in 1..MaxFiles}

NoDuplicates(s) == \A i, j \in 1..Len(s) : i # j => s[i] # s[j]

IdSeqs(maxLen) == UNION {[1..n -> Ids] : n \in 0..maxLen}

Selections(maxLen) ==
    {[i \in 1..Len(s) |-> stringifyFileKey(s[i])] : s \in {t \in IdSeqs(maxLen) : NoDuplicates(t)}}

NoEvent == [key |-> "none", shiftKey |-> FALSE, allowMultiple |-> FALSE, target |-> 0]

Init ==
    /\ files \in FileLists
    /\ fileIdSelection \in Selections(MaxSel)
    /\ focused \in 1..Len(files)
    /\ selectedFileIds = fileIdSelection
    /\ ev = NoEvent
    /\ calls = << >>
    /\ selectionDirection = "none"

Next ==
    \E allowMultiple \in BOOLEAN, shiftKey \in BOOLEAN, key \in Keys :
        maybeMoveSelection(allowMultiple, shiftKey, key)

Spec == Init /\ [][Next]_vars

\* A view that starts with one selected file and receives only shift+arrow keys.
InitSingle == Init /\ Len(fileIdSelection) = 1

NextExtend == \E key \in {"ArrowUp", "ArrowDown"} : maybeMoveSelection(TRUE, TRUE, key)

SpecExtend == InitSingle /\ [][NextExtend]_vars

(***************************************************************************)
(* Vocabulary of the properties.  List positions are those of `files`,     *)
(* counted from 1; an id that is in no position has position 0.            *)
(***************************************************************************)

Arrows == {"ArrowUp", "ArrowDown"}

Handled == ev.key # "none"

HandledArrow == ev.key \in Arrows

Extending == ev.shiftKey /\ ev.allowMultiple

KeyOf(id) == [fileKey |-> id]

IdOf(k) == k.fileKey

ListPosition(id) ==
    IF \E p \in 1..Len(files) : files[p] = id
    THEN CHOOSE p \in 1..Len(files) : files[p] = id
    ELSE 0

Step(key) == IF key = "ArrowUp" THEN -1 ELSE 1

HasAdjacent(id, key) ==
    /\ ListPosition(id) > 0
    /\ ListPosition(id) + Step(key) \in 1..Len(files)

AdjacentFile(id, key) == files[ListPosition(id) + Step(key)]

FirstSelected == IdOf(selectedFileIds[1])

LastSelected == IdOf(selectedFileIds[Len(selectedFileIds)])

FocusedFile == files[ev.target]

\* The file an arrow key moves from.
ReferenceFile ==
    IF Extending \/ Len(selectedFileIds) > 1 THEN LastSelected ELSE FocusedFile

\* The direction of the selection the handler was called with.
ExistingDirection ==
    IF ListPosition(LastSelected) > ListPosition(FirstSelected) THEN "down"
    ELSE IF ListPosition(LastSelected) < ListPosition(FirstSelected) THEN "up"
    ELSE "none"

Opposes(key) ==
    \/ key = "ArrowUp" /\ ExistingDirection = "down"
    \/ key = "ArrowDown" /\ ExistingDirection = "up"

CallOps == [i \in 1..Len(calls) |-> calls[i].op]

\* s without its last element.
Front(s) == SubSeq(s, 1, Len(s) - 1)

(***************************************************************************)
(* C1                                                                      *)
(***************************************************************************)

\* C1: an arrow key without the extend modifier, pressed while more than one
\* identifier is selected, leaves exactly the file next to (ArrowDown) or
\* previous to (ArrowUp) the last-selected identifier selected, whichever file
\* has focus; when the last-selected identifier has no such neighbour the
\* selection is left as it was.
C1_PlainArrowCollapsesToNeighbourOfLast ==
    (HandledArrow /\ ~ev.shiftKey /\ Len(selectedFileIds) > 1) =>
        IF HasAdjacent(LastSelected, ev.key)
        THEN fileIdSelection = <<KeyOf(AdjacentFile(LastSelected, ev.key))>>
        ELSE fileIdSelection = selectedFileIds

C1_Witness ==
    /\ ev.key = "ArrowDown" /\ ~ev.shiftKey
    /\ Len(selectedFileIds) > 1
    /\ FocusedFile # LastSelected
    /\ HasAdjacent(FocusedFile, ev.key)
    /\ HasAdjacent(LastSelected, ev.key)
    /\ fileIdSelection = <<KeyOf(AdjacentFile(LastSelected, ev.key))>>
    /\ fileIdSelection # <<KeyOf(AdjacentFile(FocusedFile, ev.key))>>

(***************************************************************************)
(* C2                                                                      *)
(***************************************************************************)

\* C2 as stated: ArrowUp with the extend modifier on a selection of size 1
\* (an identifier of the list) sets the direction to up and adds the previous
\* file, so the selection has size 2 afterwards.
C2_Original ==
    (/\ ev.key = "ArrowUp" /\ Extending /\ Len(selectedFileIds) = 1
     /\ ListPosition(LastSelected) > 0) =>
        /\ selectionDirection = "up"
        /\ Len(fileIdSelection) = 2
        /\ fileIdSelection[1] = selectedFileIds[1]

\* C2 amended: ArrowUp with the extend modifier on a selection of size 1 sets
\* the direction to up; if the selected identifier has a previous file in the
\* list that file is appended and the selection has size 2, otherwise (first
\* position, or not in the list) the selection stays as it was, of size 1.
C2_ExtendUpFromSingle ==
    (ev.key = "ArrowUp" /\ Extending /\ Len(selectedFileIds) = 1) =>
        /\ selectionDirection = "up"
        /\ IF HasAdjacent(LastSelected, "ArrowUp")
           THEN fileIdSelection =
                    <<selectedFileIds[1], KeyOf(AdjacentFile(LastSelected, "ArrowUp"))>>
           ELSE fileIdSelection = selectedFileIds

C2_Witness ==
    /\ ev.key = "ArrowUp" /\ Extending
    /\ Len(selectedFileIds) = 1
    /\ selectionDirection = "up"
    /\ Len(fileIdSelection) = 2
    /\ ListPosition(IdOf(fileIdSelection[2])) = ListPosition(LastSelected) - 1

(***************************************************************************)
(* C3                                                                      *)
(***************************************************************************)

\* C3: the selection never holds an identifier twice, whatever sequence of
\* navigation events is handled.
C3_NoDuplicateIdentifiers == NoDuplicates(fileIdSelection)

\* An extend event whose neighbour was already selected: nothing was added.
C3_Witness ==
    /\ HandledArrow /\ Extending
    /\ Len(selectedFileIds) > 1
    /\ HasAdjacent(LastSelected, ev.key)
    /\ includes(selectedFileIds, KeyOf(AdjacentFile(LastSelected, ev.key)))
    /\ \A i \in 1..Len(calls) : calls[i].op # "add"

(***************************************************************************)
(* C4                                                                      *)
(***************************************************************************)

\* C4: on an extend event with more than one identifier selected and the
\* existing direction opposite to the key, the handler's first call removes
\* the last-selected identifier, nothing else is removed, and any add comes
\* after it; on every other extend event no remove call is made.
C4_ReverseRemovesLastFirst ==
    (HandledArrow /\ Extending /\ Len(selectedFileIds) > 0) =>
        IF Len(selectedFileIds) > 1 /\ Opposes(ev.key)
        THEN /\ Len(calls) >= 1
             /\ calls[1] = removeCall(LastSelected)
             /\ \A i \in 2..Len(calls) : calls[i].op = "add"
             /\ SubSeq(fileIdSelection, 1, Len(selectedFileIds) - 1) = Front(selectedFileIds)
             /\ ~includes(fileIdSelection, KeyOf(LastSelected))
        ELSE \A i \in 1..Len(calls) : calls[i].op # "remove"

C4_Witness ==
    /\ HandledArrow /\ Extending
    /\ Len(selectedFileIds) > 1 /\ Opposes(ev.key)
    /\ CallOps = <<"remove", "add">>
    /\ calls[1].fileId = LastSelected

(***************************************************************************)
(* C5                                                                      *)
(***************************************************************************)

ABCD == <<1, 2, 3, 4>>

ExtendDown(e) == e.key = "ArrowDown" /\ e.shiftKey /\ e.allowMultiple

ExtendUp(e) == e.key = "ArrowUp" /\ e.shiftKey /\ e.allowMultiple

\* The state left by ArrowDown+extend on [B] over [A,B,C,D].
C5AfterExtendDown ==
    /\ files = ABCD
    /\ ExtendDown(ev)
    /\ selectedFileIds = <<KeyOf(2)>>
    /\ fileIdSelection = <<KeyOf(2), KeyOf(3)>>

C5FirstStep ==
    (files = ABCD /\ fileIdSelection = <<KeyOf(2)>> /\ ExtendDown(ev'))
        => fileIdSelection' = <<KeyOf(2), KeyOf(3)>>

\* C5 as stated: over [A,B,C,D] with [B] selected, ArrowDown+extend yields
\* [B,C], and a following ArrowUp+extend removes C and then adds A, leaving
\* [B,A].
C5_Original ==
    [][/\ C5FirstStep
       /\ (C5AfterExtendDown /\ ExtendUp(ev'))
            => /\ calls' = <<removeCall(3), addCall(1)>>
               /\ fileIdSelection' = <<KeyOf(2), KeyOf(1)>>]_vars

\* C5 amended: over [A,B,C,D] with [B] selected, ArrowDown+extend yields
\* [B,C]; a following ArrowUp+extend removes C and adds nothing (the file
\* previous to C is B, which is already selected), leaving [B].
C5_ReverseShrinksToAnchor ==
    [][/\ C5FirstStep
       /\ (C5AfterExtendDown /\ ExtendUp(ev'))
            => /\ calls' = <<removeCall(3)>>
               /\ fileIdSelection' = <<KeyOf(2)>>]_vars

C5_Witness ==
    /\ files = ABCD
    /\ ExtendUp(ev)
    /\ selectedFileIds = <<KeyOf(2), KeyOf(3)>>
    /\ calls = <<removeCall(3)>>
    /\ fileIdSelection = <<KeyOf(2)>>

(***************************************************************************)
(* C6                                                                      *)
(***************************************************************************)

\* C6: when the reference file of an arrow event has no neighbour in the
\* key's direction (first position for ArrowUp, last for ArrowDown, or not in
\* the list), the handler calls neither add, remove nor clear and the
\* selection is what it was.
C6_OutOfRangeNoMutation ==
    (HandledArrow /\ Len(selectedFileIds) > 0 /\ ~HasAdjacent(ReferenceFile, ev.key)) =>
        /\ calls = << >>
        /\ fileIdSelection = selectedFileIds

(***************************************************************************)
(* C7                                                                      *)
(***************************************************************************)

\* C7: an event against an empty selection, or with a key other than the two
\* arrows, changes nothing: no call on the manager, the selection as it was,
\* focus where it was.
C7_EmptyOrOtherKeyIsNoOp ==
    (Handled /\ (Len(selectedFileIds) = 0 \/ ev.key \notin Arrows)) =>
        /\ calls = << >>
        /\ fileIdSelection = selectedFileIds
        /\ focused = ev.target

\* A plain ArrowDown away from the end of the list, on an empty selection.
C7_Witness ==
    /\ ev.key = "ArrowDown" /\ ~ev.shiftKey
    /\ Len(selectedFileIds) = 0
    /\ ev.target < Len(files)
    /\ focused = ev.target

(***************************************************************************)
(* C8                                                                      *)
(***************************************************************************)

\* C8: an event on a non-empty selection leaves it non-empty; every clear is
\* made only when the reference file has a neighbour and is immediately
\* followed by the add of that neighbour; every remove is made only when more
\* than one identifier is selected.
C8_NeverEmptiesSelection ==
    (Handled /\ Len(selectedFileIds) > 0) =>
        /\ Len(fileIdSelection) > 0
        /\ \A i \in 1..Len(calls) :
              /\ calls[i].op = "clear" =>
                    /\ HasAdjacent(ReferenceFile, ev.key)
                    /\ i < Len(calls)
                    /\ calls[i + 1] = addCall(AdjacentFile(ReferenceFile, ev.key))
              /\ calls[i].op = "remove" => Len(selectedFileIds) > 1

\* A reversal that removed one of two identifiers and added nothing.
C8_Witness ==
    /\ HandledArrow
    /\ Len(selectedFileIds) = 2
    /\ CallOps = <<"remove">>
    /\ Len(fileIdSelection) = 1

(***************************************************************************)
(* C9                                                                      *)
(***************************************************************************)

SelectedPosition(i) == ListPosition(IdOf(fileIdSelection[i]))

\* C9 (under SpecExtend): after any sequence of shift+arrow events from one
\* selected file, the first identifier is the one the selection started with,
\* the identifiers occupy consecutive list positions leading away from it in
\* selection order, and each event changed the size by at most one.
C9_ContiguousRunFromAnchor ==
    /\ Len(fileIdSelection) >= 1
    /\ fileIdSelection[1] = selectedFileIds[1]
    /\ Len(fileIdSelection) - Len(selectedFileIds) \in {-1, 0, 1}
    /\ Len(fileIdSelection) > 1 =>
          \E d \in {-1, 1} :
              \A i \in 1..Len(fileIdSelection) :
                  /\ SelectedPosition(i) > 0
                  /\ SelectedPosition(i) = SelectedPosition(1) + (i - 1) * d

\* A run of three that a reversal shrank to two.
C9_Witness ==
    /\ HandledArrow
    /\ Len(selectedFileIds) = 3
    /\ Len(fileIdSelection) = 2
    /\ CallOps = <<"remove">>

(***************************************************************************)
(* C10                                                                     *)
(***************************************************************************)

AtBoundary(key, target) ==
    \/ key = "ArrowUp" /\ target = 1
    \/ key = "ArrowDown" /\ target = Len(files)

\* C10: when exactly the focused file is selected, an arrow event that does
\* not extend leaves exactly one identifier selected, that of the file whose
\* element now has focus; at a list boundary neither focus nor selection
\* moves, elsewhere both move one position in the key's direction.
C10_FocusAndSelectionInStep ==
    (/\ HandledArrow /\ ~Extending
     /\ selectedFileIds = <<KeyOf(FocusedFile)>>) =>
        /\ fileIdSelection = <<KeyOf(files[focused])>>
        /\ IF AtBoundary(ev.key, ev.target)
           THEN focused = ev.target /\ fileIdSelection = selectedFileIds
           ELSE focused = ev.target + Step(ev.key)

C10_Witness ==
    /\ HandledArrow /\ ~Extending
    /\ selectedFileIds = <<KeyOf(FocusedFile)>>
    /\ focused # ev.target
    /\ fileIdSelection = <<KeyOf(files[focused])>>
    /\ fileIdSelection # selectedFileIds

====
